---- MODULE Spec2Model ----
(***************************************************************************)
(* The immune-cell dashboard: the SQLite store written by                  *)
(* data_management.py and the three computations of analysis.py that read  *)
(* it (compute_relative_frequencies, compare_responders, baseline_summary).*)
(*                                                                         *)
(* Numbers.  A float is a pair <<kind, v>>:                                *)
(*   <<"val", v>>    a numpy float64 holding v (the unit is stated where   *)
(*                   the value is made: hundredths for percentages),       *)
(*   <<"nan", 0>>    a numpy float64 not-a-number,                         *)
(*   <<"inf", s>>    a numpy float64 infinity of sign s,                   *)
(*   <<"pynan", 0>>  the Python float float("nan"), which unlike a numpy   *)
(*                   float64 has no .round method.                         *)
(* SQL NULL / Python None is the label NULL.                               *)
(***************************************************************************)
EXTENDS Integers, Sequences, FiniteSets, TLC

VARIABLES
    samples,       \* the rows of table samples, in rowid order
    cell_counts,   \* the rows of table cell_counts, in rowid order
    scipy_welch,   \* what stats.ttest_ind answers on the present rows
    last_call,     \* the most recent analysis call on the present rows
    cache,         \* what st.cache_resource holds for load_database(db_path)
    page           \* what the dashboard's last run of main has shown

vars == <<samples, cell_counts, scipy_welch, last_call, cache, page>>

----------------------------------------------------------------------------
(* Bounds of the model *)

\* the most rows of table samples load_data may leave
MaxSamples == 4

\* the most rows of samples and of cell_counts in a store taken as given
MaxStoreSamples == 2

MaxStoreCounts == 2

----------------------------------------------------------------------------
(* Values *)

NULL == "NULL"

NaN == <<"nan", 0>>

PyNaN == <<"pynan", 0>>

Val(v) == <<"val", v>>

IsVal(x) == x[1] = "val"

\* pd.isnull / math.isnan
IsNaN(x) == x[1] \in {"nan", "pynan"}

\* isinstance(x, float) and not a numpy scalar
IsPyFloat(x) == x[1] = "pynan"

\* the immune populations load_data normalises, in insertion order
Populations == <<"b_cell", "cd8_t_cell", "cd4_t_cell", "nk_cell", "monocyte">>

\* string order of the labels the model uses (Python's < on str)
LabelOrder ==
    <<"F", "M", "NULL", "b_cell", "cd4_t_cell", "cd8_t_cell", "monocyte",
      "nk_cell", "no", "prj1", "prj2", "s1", "s2", "s3", "s4", "s5", "s6",
      "yes">>

LabelRank(l) == CHOOSE i \in 1..Len(LabelOrder) : LabelOrder[i] = l

Range(s) == {s[i] : i \in 1..Len(s)}

RECURSIVE MapSeq(_, _)
\* <<F(s[1]), ..., F(s[Len(s)])>>
MapSeq(F(_), s) ==
    IF s = <<>> THEN <<>> ELSE <<F(Head(s))>> \o MapSeq(F, Tail(s))

\* the function f itself, held with its values computed once
Stored(f) == f @@ <<>>

RECURSIVE SumSeq(_)
SumSeq(s) == IF s = <<>> THEN 0 ELSE Head(s) + SumSeq(Tail(s))

\* numpy's round of n/d to an integer: to nearest, ties to the even one
RoundHalfEven(n, d) ==
    LET q == n \div d
        r == n % d
    IN  IF 2 * r < d THEN q
        ELSE IF 2 * r > d THEN q + 1
        ELSE IF q % 2 = 0 THEN q ELSE q + 1

----------------------------------------------------------------------------
(* data_management.py *)

\* one line of the CSV file: the metadata the analysis reads and the five
\* population counts (subject and age are stored but never used downstream)
CsvRow(sample, project, condition, sex, treatment, response, sample_type,
       time, counts) ==
    [sample |-> sample, project |-> project, condition |-> condition,
     sex |-> sex, treatment |-> treatment, response |-> response,
     sample_type |-> sample_type, time_from_treatment_start |-> time,
     counts |-> counts]

\* the CSV lines the model feeds to load_data.  A file without a response
\* column makes row.get("response") None, stored as NULL.
CsvRows ==
    { CsvRow("s1", "prj1", "melanoma", "M", "miraclib", "yes", "PBMC", 0,
             <<1000, 9000, 0, 0, 0>>),
      CsvRow("s2", "prj1", "melanoma", "M", "miraclib", "yes", "PBMC", 0,
             <<1046, 8954, 0, 0, 0>>),
      CsvRow("s3", "prj2", "melanoma", "F", "miraclib", "no", "PBMC", 0,
             <<1140, 8860, 0, 0, 0>>),
      CsvRow("s4", "prj2", "melanoma", "M", "miraclib", "no", "PBMC", 7,
             <<1186, 8814, 0, 0, 0>>),
      CsvRow("s5", "prj1", "melanoma", "F", "miraclib", NULL, "PBMC", 0,
             <<0, 0, 0, 0, 0>>),
      CsvRow("s6", "prj2", "healthy", "M", "none", "yes", "PBMC", 0,
             <<2, 1, 3, 0, 0>>) }

\* the files handed to load_data: no line, one line or two lines
CsvFiles == UNION {[1..n -> CsvRows] : n \in 0..2}

\* INSERT INTO samples: the row with the next INTEGER PRIMARY KEY
SampleRecord(id, row) ==
    [id |-> id, sample |-> row.sample, project |-> row.project,
     condition |-> row.condition, sex |-> row.sex,
     treatment |-> row.treatment, response |-> row.response,
     sample_type |-> row.sample_type,
     time_from_treatment_start |-> row.time_from_treatment_start]

\* INSERT INTO cell_counts, once per population of the CSV line
CellRecords(first_id, sample_id, row) ==
    [k \in 1..Len(Populations) |->
        [id |-> first_id + k - 1, sample_id |-> sample_id,
         population |-> Populations[k], count |-> row.counts[k]]]

RECURSIVE InsertRows(_, _, _)
\* the for loop of load_data over the lines of the file
InsertRows(S, C, csv) ==
    IF csv = <<>> THEN <<S, C>>
    ELSE LET sample_id == Len(S) + 1
         IN  InsertRows(Append(S, SampleRecord(sample_id, Head(csv))),
                        C \o CellRecords(Len(C) + 1, sample_id, Head(csv)),
                        Tail(csv))

NoCall == [op |-> "none", raised |-> "none", value |-> <<>>]

\* nothing cached yet; contents is the bookkeeping of which rows the cached
\* results were read from
NoCache ==
    [filled |-> FALSE, rel_freq |-> <<>>, stats_df |-> <<>>,
     baseline |-> <<>>, contents |-> <<>>]

\* main has not run yet; table_of and plot_of are the bookkeeping of which
\* rows the table and the plot shown were read from
NoPage ==
    [view |-> "none", raised |-> "none", plot |-> <<>>, table |-> <<>>,
     table_of |-> <<>>, plot_of |-> <<>>]

\* stats.ttest_ind has not been asked about the present rows
Unasked == <<0, 0>>

initialize_database ==
    /\ samples' = <<>>
    /\ cell_counts' = <<>>
    /\ last_call' = NoCall
    /\ scipy_welch' = Unasked
    /\ UNCHANGED <<cache, page>>

\* load_data on one CSV file
LoadCsv(csv) ==
    /\ Len(samples) + Len(csv) <= MaxSamples
    /\ LET db == InsertRows(samples, cell_counts, csv)
       IN  /\ samples' = db[1]
           /\ cell_counts' = db[2]
    /\ last_call' = IF csv = <<>> THEN last_call ELSE NoCall
    /\ scipy_welch' = IF csv = <<>> THEN scipy_welch ELSE Unasked
    /\ UNCHANGED <<cache, page>>

load_data == \E csv \in CsvFiles : LoadCsv(csv)

----------------------------------------------------------------------------
(* analysis.py: compute_relative_frequencies *)

\* SELECT ... FROM cell_counts c JOIN samples s ON c.sample_id = s.id
\* (inner join, rows in cell_counts order)
JoinCounts(S, C) ==
    LET SampleOf(c) == SelectSeq(S, LAMBDA s : s.id = c.sample_id)
        kept == SelectSeq(C, LAMBDA c : SampleOf(c) # <<>>)
        Row(c) == LET s == SampleOf(c)[1]
                  IN  [sample |-> s.sample, response |-> s.response,
                       population |-> c.population, count |-> c.count]
    IN  MapSeq(Row, kept)

RECURSIVE TotalCount(_, _)
\* df.groupby("sample")["count"].sum() looked up for one label
TotalCount(df, label) ==
    IF df = <<>> THEN 0
    ELSE (IF Head(df).sample = label THEN Head(df).count ELSE 0)
         + TotalCount(Tail(df), label)

\* the quotient cut off after 2 decimals instead of rounded
PercentageTruncated(count, total_count) ==
    IF total_count = 0 THEN NaN
    ELSE Val((count * 10000) \div total_count)

\* (count / total_count * 100).astype(float).round(2), in hundredths;
\* 0 / 0 is not-a-number in pandas, no exception
Percentage(count, total_count) ==
    IF total_count = 0 THEN NaN
    ELSE Val(RoundHalfEven(count * 10000, total_count))

\* df.join(totals, on="sample") and the percentage column
WithPercentage(df) ==
    LET totals == Stored([l \in {df[k].sample : k \in 1..Len(df)} |->
                             TotalCount(df, l)])
        Row(r) == [sample |-> r.sample, response |-> r.response,
                   total_count |-> totals[r.sample],
                   population |-> r.population, count |-> r.count,
                   percentage |-> Percentage(r.count, totals[r.sample])]
    IN  MapSeq(Row, df)

\* the rows appended to those an earlier call left behind
compute_relative_frequencies_retaining(S, C) ==
    LET df == WithPercentage(JoinCounts(S, C))
        Row(r) == [sample |-> r.sample, total_count |-> r.total_count,
                   population |-> r.population, count |-> r.count,
                   percentage |-> r.percentage]
    IN  [raised |-> "none",
         value |-> (IF last_call.op = "compute_relative_frequencies"
                    THEN last_call.value ELSE <<>>) \o MapSeq(Row, df)]

compute_relative_frequencies(S, C) ==
    LET df == WithPercentage(JoinCounts(S, C))
        \* df[["sample", "total_count", "population", "count", "percentage"]]
        Row(r) == [sample |-> r.sample, total_count |-> r.total_count,
                   population |-> r.population, count |-> r.count,
                   percentage |-> r.percentage]
    IN  [raised |-> "none", value |-> MapSeq(Row, df)]

call_compute_relative_frequencies ==
    /\ last_call' = [op |-> "compute_relative_frequencies"]
                       @@ compute_relative_frequencies(samples, cell_counts)
    /\ UNCHANGED <<samples, cell_counts, scipy_welch, cache, page>>

----------------------------------------------------------------------------
(* analysis.py: compare_responders *)

\* WHERE s.condition = 'melanoma' AND s.sample_type = 'PBMC'
\*   AND s.treatment = 'miraclib'
CohortPredicate(s) ==
    /\ s.condition = "melanoma"
    /\ s.sample_type = "PBMC"
    /\ s.treatment = "miraclib"

\* SELECT s.sample, s.response, c.population, c.count
\* FROM samples s JOIN cell_counts c ON s.id = c.sample_id WHERE ...
QueryCohort(S, C) == JoinCounts(SelectSeq(S, CohortPredicate), C)

RECURSIVE SortedLabels(_)
\* the keys of a groupby, which pandas sorts
SortedLabels(set) ==
    IF set = {} THEN <<>>
    ELSE LET least == CHOOSE l \in set :
                          \A m \in set : LabelRank(l) <= LabelRank(m)
         IN  <<least>> \o SortedLabels(set \ {least})

\* group[group["response"] == r]["percentage"].values for one population
GroupValues(df, population, response) ==
    MapSeq(LAMBDA r : r.percentage,
           SelectSeq(df, LAMBDA r : r.population = population
                                      /\ r.response = response))

AnyNaN(values) == \E k \in 1..Len(values) : IsNaN(values[k])

Sum(values) == SumSeq(MapSeq(LAMBDA x : x[2], values))

\* values.mean().astype(float).round(2) if len(values) > 0 else float("nan")
GroupMean(values) ==
    IF Len(values) = 0 THEN PyNaN
    ELSE IF AnyNaN(values) THEN NaN
    ELSE Val(RoundHalfEven(Sum(values), Len(values)))

\* the subtraction taken the other way round
MinusSwapped(a, b) ==
    IF IsNaN(a) \/ IsNaN(b)
    THEN IF IsPyFloat(a) /\ IsPyFloat(b) THEN PyNaN ELSE NaN
    ELSE Val(b[2] - a[2])

\* a - b on floats: a numpy operand makes the result a numpy float64
Minus(a, b) ==
    IF IsNaN(a) \/ IsNaN(b)
    THEN IF IsPyFloat(a) /\ IsPyFloat(b) THEN PyNaN ELSE NaN
    ELSE Val(a[2] - b[2])

AllEqual(values) == \A k \in 1..Len(values) : values[k] = values[1]

\* the sign of mean(a) - mean(b)
MeanOrder(a, b) == Sum(a) * Len(b) - Sum(b) * Len(a)

\* |x|
Abs(x) == IF x < 0 THEN -x ELSE x

\* Two values against two with the same spacing d inside each group and
\* the means D apart, D / d = 70 / 23 (such as [10, 10.46] against
\* [11.4, 11.86]): both variances are equal, Welch's degrees of freedom
\* are 2, t * t = 2 * D * D / (d * d) and p = 1 - |t| / sqrt(2 + t * t),
\* which is |t| = 4.304128 and p = 0.049968.
Tabulated(a, b) ==
    /\ Len(a) = 2 /\ Len(b) = 2
    /\ Abs(a[1][2] - a[2][2]) = Abs(b[1][2] - b[2][2])
    /\ 23 * Abs(Sum(a) - Sum(b)) = 140 * Abs(a[1][2] - a[2][2])

\* an input whose t statistic is finite and not zero, so that the p value
\* comes from the t distribution
Regular(a, b) ==
    /\ ~AnyNaN(a) /\ ~AnyNaN(b)
    /\ ~(AllEqual(a) /\ AllEqual(b))
    /\ MeanOrder(a, b) # 0

Sign(x) == IF x > 0 THEN 1 ELSE -1

\* stats.ttest_ind(a, b, equal_var=False) on two groups of at least two
\* values: <<t, p>> in millionths.  The library is outside the repository:
\* it is computed here where the result needs no t distribution or is
\* tabulated, and on any other regular input it is welch = <<|t|, p>>, one
\* of WelchOutcomes, the same at every call on the same rows.
ttest_ind(a, b, welch) ==
    IF AnyNaN(a) \/ AnyNaN(b) THEN <<NaN, NaN>>
    ELSE IF AllEqual(a) /\ AllEqual(b)
    THEN IF MeanOrder(a, b) = 0 THEN <<NaN, NaN>>
         ELSE <<(<<"inf", Sign(MeanOrder(a, b))>>), Val(0)>>
    ELSE IF MeanOrder(a, b) = 0 THEN <<Val(0), Val(1000000)>>
    ELSE IF Tabulated(a, b)
    THEN <<Val(Sign(MeanOrder(a, b)) * 4304128), Val(49968)>>
    ELSE <<Val(Sign(MeanOrder(a, b)) * welch[1]), Val(welch[2])>>

\* values stats.ttest_ind returns for 2-against-2 inputs with equal spacing
\* (<<|t|, p>> in millionths): [10, 20] against [30, 40] and [10, 11]
\* against [20, 21]
WelchOutcomes == {<<2828427, 105573>>, <<14142136, 4963>>}

\* x.round(4) of a numpy float64 held in millionths, in ten-thousandths
Round4(x) ==
    IF ~IsVal(x) THEN x
    ELSE IF x[2] >= 0 THEN Val(RoundHalfEven(x[2], 100))
    ELSE Val(-RoundHalfEven(-x[2], 100))

\* p_val < 0.05 if not pd.isnull(p_val) else False
Significant(p_val) == IF ~IsNaN(p_val) THEN p_val[2] < 50000 ELSE FALSE

\* one pass of the loop over df.groupby("population")
ComparisonRow(df, population, welch) ==
    LET responders == GroupValues(df, population, "yes")
        non_responders == GroupValues(df, population, "no")
        mean_resp == GroupMean(responders)
        mean_non_resp == GroupMean(non_responders)
        tp == IF Len(responders) > 1 /\ Len(non_responders) > 1
              THEN ttest_ind(responders, non_responders, welch)
              ELSE <<PyNaN, PyNaN>>
        difference == Minus(mean_resp, mean_non_resp)
    IN  \* .round is a method of numpy floats only
        IF IsPyFloat(difference) \/ IsPyFloat(tp[1]) \/ IsPyFloat(tp[2])
        THEN [raised |-> "AttributeError", row |-> <<>>]
        ELSE [raised |-> "none",
              row |-> [population |-> population,
                       mean_percentage_responders |-> mean_resp,
                       mean_percentage_non_responders |-> mean_non_resp,
                       difference |-> difference,
                       t_statistic |-> Round4(tp[1]),
                       p_value |-> Round4(tp[2]),
                       significant |-> Significant(tp[2])]]

\* welch is the answer of stats.ttest_ind on a regular input
compare_responders(S, C, welch) ==
    LET df == WithPercentage(QueryCohort(S, C))
        keys == SortedLabels({df[k].population : k \in 1..Len(df)})
        results == MapSeq(LAMBDA population :
                            ComparisonRow(df, population, welch), keys)
    IN  IF \E k \in 1..Len(keys) : results[k].raised # "none"
        THEN [raised |-> "AttributeError", value |-> <<>>]
        ELSE [raised |-> "none", value |-> MapSeq(LAMBDA r : r.row, results)]

\* the call hands stats.ttest_ind a regular input
AsksWelch(S, C) ==
    LET df == WithPercentage(QueryCohort(S, C))
    IN  \E population \in {df[k].population : k \in 1..Len(df)} :
            LET responders == GroupValues(df, population, "yes")
                non_responders == GroupValues(df, population, "no")
            IN  /\ Len(responders) > 1 /\ Len(non_responders) > 1
                /\ Regular(responders, non_responders)
                /\ ~Tabulated(responders, non_responders)

call_compare_responders ==
    \E welch \in IF scipy_welch = Unasked /\ AsksWelch(samples, cell_counts)
                 THEN WelchOutcomes
                 ELSE {scipy_welch} :
        /\ scipy_welch' = welch
        /\ last_call' = [op |-> "compare_responders"]
                           @@ compare_responders(samples, cell_counts, welch)
        /\ UNCHANGED <<samples, cell_counts, cache, page>>

----------------------------------------------------------------------------
(* analysis.py: baseline_summary *)

\* WHERE s.condition = 'melanoma' AND s.sample_type = 'PBMC'
\*   AND s.treatment = 'miraclib' AND s.time_from_treatment_start = 0
BaselinePredicate(s) ==
    /\ s.condition = "melanoma"
    /\ s.sample_type = "PBMC"
    /\ s.treatment = "miraclib"
    /\ s.time_from_treatment_start = 0

\* df.groupby(key)["sample"].count().to_dict(), labels being the key column:
\* groupby leaves out the rows whose key is null
GroupCount(labels) ==
    [l \in Range(labels) \ {NULL} |->
        Cardinality({k \in 1..Len(labels) : labels[k] = l})]

\* SELECT sample_id, count AS b_cell_count FROM cell_counts
\* WHERE population = 'b_cell'
BCounts(C) == SelectSeq(C, LAMBDA c : c.population = "b_cell")

RECURSIVE MergeLeftZeroFilled(_, _)
\* the merge with a missing count filled with 0
MergeLeftZeroFilled(df, b_counts) ==
    IF df = <<>> THEN <<>>
    ELSE LET s == Head(df)
             hits == SelectSeq(b_counts, LAMBDA c : c.sample_id = s.id)
             rows == IF hits = <<>>
                     THEN <<[sex |-> s.sex, response |-> s.response,
                             b_cell_count |-> <<0>>]>>
                     ELSE MapSeq(LAMBDA c : [sex |-> s.sex,
                                             response |-> s.response,
                                             b_cell_count |-> <<c.count>>],
                                 hits)
         IN  rows \o MergeLeftZeroFilled(Tail(df), b_counts)

RECURSIVE MergeLeft(_, _)
\* baseline_df.merge(b_counts, left_on="id", right_on="sample_id",
\* how="left"): a row per matching count, one row with a missing count
\* (<<>>) for a sample that has none
MergeLeft(df, b_counts) ==
    IF df = <<>> THEN <<>>
    ELSE LET s == Head(df)
             hits == SelectSeq(b_counts, LAMBDA c : c.sample_id = s.id)
             rows == IF hits = <<>>
                     THEN <<[sex |-> s.sex, response |-> s.response,
                             b_cell_count |-> <<>>]>>
                     ELSE MapSeq(LAMBDA c : [sex |-> s.sex,
                                             response |-> s.response,
                                             b_cell_count |-> <<c.count>>],
                                 hits)
         IN  rows \o MergeLeft(Tail(df), b_counts)

RECURSIVE GCD(_, _)
GCD(a, b) == IF b = 0 THEN a ELSE GCD(b, a % b)

\* the float n / d, held as the fraction in lowest terms
Fraction(n, d) == LET g == GCD(n, d) IN Val(<<n \div g, d \div g>>)

\* Series.mean(), which skips missing values
SeriesMean(column) ==
    LET present == SelectSeq(column, LAMBDA x : x # <<>>)
    IN  IF present = <<>> THEN NaN
        ELSE Fraction(SumSeq(MapSeq(LAMBDA x : x[1], present)), Len(present))

\* the mean with 0 standing for an empty sub-group
MeanBCellMaleRespondersOrZero(merged) ==
    LET male_resp == SelectSeq(merged,
                        LAMBDA r : r.sex = "M" /\ r.response = "yes")
    IN  IF male_resp = <<>> THEN Val(<<0, 1>>)
        ELSE SeriesMean(MapSeq(LAMBDA r : r.b_cell_count, male_resp))

\* male_resp["b_cell_count"].mean() if not male_resp.empty else float("nan")
MeanBCellMaleResponders(merged) ==
    LET male_resp == SelectSeq(merged,
                        LAMBDA r : r.sex = "M" /\ r.response = "yes")
    IN  IF male_resp = <<>> THEN PyNaN
        ELSE SeriesMean(MapSeq(LAMBDA r : r.b_cell_count, male_resp))

baseline_summary(S, C) ==
    LET baseline_df == SelectSeq(S, BaselinePredicate)
        Column(F(_)) == MapSeq(F, baseline_df)
    IN  [raised |-> "none",
         value |->
           [samples_per_project |-> GroupCount(Column(LAMBDA s : s.project)),
            responders_vs_nonresponders |->
                GroupCount(Column(LAMBDA s : s.response)),
            sex_counts |-> GroupCount(Column(LAMBDA s : s.sex)),
            mean_b_cell_male_responders |->
                MeanBCellMaleResponders(MergeLeft(baseline_df, BCounts(C)))]]

\* the call deleting the samples rows it has read
call_baseline_summary_deleting ==
    /\ last_call' = [op |-> "baseline_summary"]
                       @@ baseline_summary(samples, cell_counts)
    /\ samples' = SelectSeq(samples, LAMBDA x : ~BaselinePredicate(x))
    /\ UNCHANGED <<cell_counts, scipy_welch, cache, page>>

call_baseline_summary ==
    /\ last_call' = [op |-> "baseline_summary"]
                       @@ baseline_summary(samples, cell_counts)
    /\ UNCHANGED <<samples, cell_counts, scipy_welch, cache, page>>

----------------------------------------------------------------------------

Init ==
    /\ samples = <<>>
    /\ cell_counts = <<>>
    /\ scipy_welch = Unasked
    /\ last_call = NoCall
    /\ cache = NoCache
    /\ page = NoPage

Next ==
    \/ initialize_database
    \/ load_data
    \/ call_compute_relative_frequencies
    \/ call_compare_responders
    \/ call_baseline_summary

Spec == Init /\ [][Next]_vars

----------------------------------------------------------------------------
(* app.py: the dashboard, one run of main being one step.  The database    *)
(* file is written by data_management while the dashboard's process lives. *)

\* the CSV files loaded while the dashboard runs: two responders or two
\* non-responders of the trial each
TrialCsvFiles ==
    {csv \in CsvFiles :
        /\ Len(csv) = 2
        /\ <<csv[1].sample, csv[2].sample>>
              \in {<<"s1", "s2">>, <<"s3", "s4">>, <<"s3", "s3">>}}

load_trial_data == \E csv \in TrialCsvFiles : LoadCsv(csv)

\* the body of load_database; raw_data, which only the Data Overview page
\* shows, is left out
load_database(S, C, welch) ==
    LET stats_df == compare_responders(S, C, welch)
    IN  IF stats_df.raised # "none"
        THEN [raised |-> stats_df.raised, value |-> NoCache]
        ELSE [raised |-> "none",
              value |-> [filled |-> TRUE,
                         rel_freq |-> compute_relative_frequencies(S, C).value,
                         stats_df |-> stats_df.value,
                         baseline |-> baseline_summary(S, C).value,
                         contents |-> <<S, C>>]]

\* the data of the box plot: the cohort's rows with count / total_count * 100
\* unrounded, of the populations selected
PlotRows(S, C, selected_pop) ==
    LET df == QueryCohort(S, C)
        Row(r) == LET total_count == TotalCount(df, r.sample)
                  IN  [sample |-> r.sample, response |-> r.response,
                       population |-> r.population,
                       percentage |-> IF total_count = 0 THEN NaN
                                      ELSE Fraction(r.count * 100, total_count)]
    IN  SelectSeq(MapSeq(Row, df), LAMBDA r : r.population \in selected_pop)

\* data = load_database(db_path): the cached value once there is one
CachedOrLoaded(welch) ==
    IF cache.filled THEN [raised |-> "none", value |-> cache]
    ELSE load_database(samples, cell_counts, welch)

\* what one run of the Responder Analysis page leaves on the screen
ResponderPage(data) ==
    LET stats_df == data.value.stats_df
        populations == {stats_df[k].population : k \in 1..Len(stats_df)}
        \* stats_df["population"] of a frame without columns
        raised == IF data.raised # "none" THEN data.raised
                  ELSE IF stats_df = <<>> THEN "KeyError"
                  ELSE "none"
    IN  IF raised # "none"
        THEN [view |-> "responder_analysis", raised |-> raised,
              plot |-> <<>>, table |-> <<>>,
              table_of |-> <<>>, plot_of |-> <<>>]
        ELSE [view |-> "responder_analysis", raised |-> "none",
              plot |-> PlotRows(samples, cell_counts, populations),
              table |-> stats_df,
              table_of |-> data.value.contents,
              plot_of |-> <<samples, cell_counts>>]

\* main with page = "Responder Analysis" and the default selection
render_responder_analysis ==
    \E welch \in IF ~cache.filled /\ scipy_welch = Unasked
                     /\ AsksWelch(samples, cell_counts)
                 THEN WelchOutcomes
                 ELSE {scipy_welch} :
        /\ scipy_welch' = IF cache.filled THEN scipy_welch ELSE welch
        /\ cache' = IF CachedOrLoaded(welch).raised = "none"
                    THEN CachedOrLoaded(welch).value ELSE cache
        /\ page' = ResponderPage(CachedOrLoaded(welch))
        /\ UNCHANGED <<samples, cell_counts, last_call>>

NextDashboard ==
    \/ initialize_database
    \/ load_trial_data
    \/ render_responder_analysis

SpecDashboard == Init /\ [][NextDashboard]_vars

----------------------------------------------------------------------------
(* The analysis on a store taken as given: any rows the schema of          *)
(* initialize_database admits, whoever wrote them.  The schema does not    *)
(* ask for a cell_counts row per population, and the foreign key is only   *)
(* enforced on a connection that sets PRAGMA foreign_keys.                 *)

StoreKinds == {r \in CsvRows : r.sample \in {"s1", "s3", "s6"}}

StoreCells ==
    [sample_id : 1..2, population : {"b_cell", "cd8_t_cell"}, count : {100, 200}]

InitStore ==
    /\ \E rows \in UNION {[1..n -> StoreKinds] : n \in 0..MaxStoreSamples} :
          samples = [i \in 1..Len(rows) |-> SampleRecord(i, rows[i])]
    /\ \E cells \in UNION {[1..n -> StoreCells] : n \in 0..MaxStoreCounts} :
          cell_counts = [i \in 1..Len(cells) |->
                           [id |-> i, sample_id |-> cells[i].sample_id,
                            population |-> cells[i].population,
                            count |-> cells[i].count]]
    /\ scipy_welch = Unasked
    /\ last_call = NoCall
    /\ cache = NoCache
    /\ page = NoPage

NextStore ==
    \/ call_compute_relative_frequencies
    \/ call_compare_responders
    \/ call_baseline_summary

SpecStore == InitStore /\ [][NextStore]_vars

----------------------------------------------------------------------------
(* The claims *)

FreqReturned == last_call.op = "compute_relative_frequencies"

CompareReturned == last_call.op = "compare_responders"

BaselineReturned == last_call.op = "baseline_summary"

\* the label of the samples record a cell_counts row references
LabelOf(c) == (CHOOSE s \in Range(samples) : s.id = c.sample_id).sample

\* the sum of the counts stored under one sample label
StoredTotal(label) ==
    SumSeq([i \in 1..Len(cell_counts) |->
              IF LabelOf(cell_counts[i]) = label THEN cell_counts[i].count ELSE 0])

StoredLabels == {LabelOf(cell_counts[i]) : i \in 1..Len(cell_counts)}

\* C1: compute_relative_frequencies raises DataIntegrityError whenever a
\* sample it reads has total_count = 0, and never returns a row whose
\* percentage is not-a-number or infinite.
C1_ZeroTotalIsAnError ==
    FreqReturned =>
        /\ (\E l \in StoredLabels : StoredTotal(l) = 0)
              => last_call.raised = "DataIntegrityError"
        /\ \A k \in 1..Len(last_call.value) : IsVal(last_call.value[k].percentage)

\* the rows of the cohort (melanoma, PBMC, miraclib), as stored
CohortSampleIds ==
    {s.id : s \in {x \in Range(samples) :
                      /\ x.condition = "melanoma"
                      /\ x.sample_type = "PBMC"
                      /\ x.treatment = "miraclib"}}

CohortCells == {c \in Range(cell_counts) : c.sample_id \in CohortSampleIds}

\* the number of observations of a population in one response group
GroupSize(population, response) ==
    Cardinality({c \in CohortCells :
                    /\ c.population = population
                    /\ \E s \in Range(samples) :
                          s.id = c.sample_id /\ s.response = response})

\* C2: compare_responders returns, without raising, a row for every
\* population present in the cohort, also when the "yes" or the "no" group
\* has fewer than 2 observations: then t_statistic and p_value are
\* not-a-number and significant is false.
C2_SmallGroupsAreUndefined ==
    CompareReturned =>
        /\ last_call.raised = "none"
        /\ {last_call.value[k].population : k \in 1..Len(last_call.value)}
              = {c.population : c \in CohortCells}
        /\ \A k \in 1..Len(last_call.value) :
              LET row == last_call.value[k]
              IN  (GroupSize(row.population, "yes") < 2
                      \/ GroupSize(row.population, "no") < 2)
                  => /\ IsNaN(row.t_statistic)
                     /\ IsNaN(row.p_value)
                     /\ row.significant = FALSE

\* C3: in every row of compare_responders, significant is true exactly
\* when the p_value of the row (rounded to 4 decimals, held in
\* ten-thousandths) is defined and below 0.05.
C3_SignificantMatchesReportedP ==
    CompareReturned /\ last_call.raised = "none" =>
        \A k \in 1..Len(last_call.value) :
            LET row == last_call.value[k]
            IN  row.significant <=> (IsVal(row.p_value) /\ row.p_value[2] < 500)

\* the samples of the baseline cohort (melanoma, PBMC, miraclib, time 0)
BaselineSamples ==
    {s \in Range(samples) :
        /\ s.condition = "melanoma"
        /\ s.sample_type = "PBMC"
        /\ s.treatment = "miraclib"
        /\ s.time_from_treatment_start = 0}

RECURSIVE SumBuckets(_)
\* the sum of the counts of a label -> count mapping
SumBuckets(f) ==
    IF DOMAIN f = {} THEN 0
    ELSE LET l == CHOOSE x \in DOMAIN f : TRUE
         IN  f[l] + SumBuckets([x \in DOMAIN f \ {l} |-> f[x]])

\* C4: the buckets of responders_vs_nonresponders count every baseline
\* sample once, the samples with a null response included: the counts sum
\* to the number of baseline samples.
C4_EveryBaselineSampleCounted ==
    BaselineReturned =>
        SumBuckets(last_call.value.responders_vs_nonresponders)
            = Cardinality(BaselineSamples)

\* the percentages of the rows of one sample in the returned table
PercentagesOf(label) ==
    LET rows == SelectSeq(last_call.value, LAMBDA r : r.sample = label)
    IN  [k \in 1..Len(rows) |-> rows[k].percentage]

\* C5: for every sample of the result of compute_relative_frequencies the
\* percentages of its rows sum to 100 within 0.1 (hundredths: 10000 +- 10).
C5_PercentagesSumTo100 ==
    FreqReturned =>
        \A l \in {last_call.value[k].sample : k \in 1..Len(last_call.value)} :
            /\ \A k \in 1..Len(PercentagesOf(l)) : IsVal(PercentagesOf(l)[k])
            /\ Abs(Sum(PercentagesOf(l)) - 10000) <= 10

\* row r comes no later than row q in the order by (sample, total_count,
\* population, count, percentage); within one sample and total the
\* percentage grows with the count
RowLeq(r, q) ==
    LET kr == <<LabelRank(r.sample), r.total_count, LabelRank(r.population), r.count>>
        kq == <<LabelRank(q.sample), q.total_count, LabelRank(q.population), q.count>>
    IN  \/ kr = kq
        \/ \E i \in 1..4 : kr[i] < kq[i] /\ \A j \in 1..(i - 1) : kr[j] = kq[j]

\* C7: the rows compute_relative_frequencies returns are sorted ascending
\* by (sample, total_count, population, count, percentage), so that the
\* result does not depend on the order of the stored rows.
C7_ResultIsSorted ==
    FreqReturned =>
        \A k \in 1..(Len(last_call.value) - 1) :
            RowLeq(last_call.value[k], last_call.value[k + 1])

\* the percentage p (hundredths) is count / total_count * 100 rounded to 2
\* decimals: the nearest hundredth, and not-a-number for 0 / 0
RoundedPercentage(p, count, total_count) ==
    IF total_count = 0 THEN p = NaN
    ELSE /\ IsVal(p)
         /\ 2 * Abs(p[2] * total_count - count * 10000) <= total_count

\* C6: compute_relative_frequencies returns one row for each stored
\* (sample, population) row; in each row total_count is the sum of the
\* counts stored under the same sample label and percentage is
\* count / total_count * 100 rounded to 2 decimals.
C6_OneRowPerPair ==
    FreqReturned =>
        /\ last_call.raised = "none"
        /\ Len(last_call.value) = Len(cell_counts)
        /\ \A k \in 1..Len(last_call.value) :
              LET row == last_call.value[k]
              IN  /\ row.sample = LabelOf(cell_counts[k])
                  /\ row.population = cell_counts[k].population
                  /\ row.count = cell_counts[k].count
                  /\ row.total_count = StoredTotal(row.sample)
                  /\ RoundedPercentage(row.percentage, row.count, row.total_count)

\* a percentage that is rounded up, in a store with two samples records of
\* one label
C6_Witness ==
    /\ FreqReturned
    /\ \E k \in 1..Len(last_call.value) : last_call.value[k].percentage = Val(1667)
    /\ \E i, j \in 1..Len(samples) : i # j /\ samples[i].sample = samples[j].sample

\* C8: when no sample matches the cohort predicate compare_responders
\* returns an empty result, and when none matches the baseline predicate
\* baseline_summary returns three empty mappings and a not-a-number mean;
\* neither raises.
C8_EmptyCohortIsNoError ==
    /\ (CompareReturned /\ CohortSampleIds = {})
          => last_call.raised = "none" /\ last_call.value = <<>>
    /\ (BaselineReturned /\ BaselineSamples = {})
          => /\ last_call.raised = "none"
             /\ DOMAIN last_call.value.samples_per_project = {}
             /\ DOMAIN last_call.value.responders_vs_nonresponders = {}
             /\ DOMAIN last_call.value.sex_counts = {}
             /\ IsNaN(last_call.value.mean_b_cell_male_responders)

\* baseline_summary has returned on a store that holds samples, none of them
\* of the cohort
C8_Witness ==
    /\ BaselineReturned
    /\ samples # <<>>
    /\ CohortSampleIds = {}
    /\ IsNaN(last_call.value.mean_b_cell_male_responders)

\* the baseline samples with sex = 'M' and response = 'yes'
MaleResponderIds ==
    {s.id : s \in {x \in BaselineSamples : x.sex = "M" /\ x.response = "yes"}}

\* the b_cell counts recorded for them
RecordedBCells ==
    {c \in Range(cell_counts) :
        c.population = "b_cell" /\ c.sample_id \in MaleResponderIds}

RECURSIVE SumCounts(_)
SumCounts(cells) ==
    IF cells = {} THEN 0
    ELSE LET c == CHOOSE x \in cells : TRUE
         IN  c.count + SumCounts(cells \ {c})

\* C9: mean_b_cell_male_responders is the arithmetic mean of the b_cell
\* counts recorded for the male responders of the baseline cohort: a sample
\* without a b_cell row adds nothing to the sum nor to the divisor, and
\* the mean is not-a-number, not 0, when there is no such sample or count.
C9_MeanOfRecordedBCells ==
    BaselineReturned =>
        LET mean == last_call.value.mean_b_cell_male_responders
        IN  IF RecordedBCells = {} THEN IsNaN(mean)
            ELSE /\ IsVal(mean)
                 /\ mean[2][1] * Cardinality(RecordedBCells)
                       = SumCounts(RecordedBCells) * mean[2][2]

\* two male responders, one of them without a b_cell row: the mean is the
\* other's count
C9_Witness ==
    /\ BaselineReturned
    /\ Cardinality(MaleResponderIds) = 2
    /\ Cardinality(RecordedBCells) = 1
    /\ last_call.value.mean_b_cell_male_responders
          = Val(<<SumCounts(RecordedBCells), 1>>)

GroupCells(population, response) ==
    {c \in CohortCells :
        /\ c.population = population
        /\ \E s \in Range(samples) : s.id = c.sample_id /\ s.response = response}

\* the percentage of a cohort row: its count over the counts the cohort
\* holds under the same sample label
CellPercentage(c) ==
    Percentage(c.count, SumCounts({x \in CohortCells : LabelOf(x) = LabelOf(c)}))

RECURSIVE SumPercentages(_)
SumPercentages(cells) ==
    IF cells = {} THEN 0
    ELSE LET c == CHOOSE x \in cells : TRUE
         IN  CellPercentage(c)[2] + SumPercentages(cells \ {c})

\* m is the mean of the percentages of the rows, rounded to 2 decimals
\* (not-a-number when one of the percentages is)
RoundedMean(m, cells) ==
    IF \E c \in cells : IsNaN(CellPercentage(c)) THEN IsNaN(m)
    ELSE /\ IsVal(m)
         /\ 2 * Abs(m[2] * Cardinality(cells) - SumPercentages(cells))
               <= Cardinality(cells)

\* C11: in each row of compare_responders whose two groups are non-empty,
\* the two mean percentages are the arithmetic means of the 2-decimal
\* percentages of the "yes" and of the "no" rows of the population, rounded
\* to 2 decimals, and difference is the first mean minus the second.
C11_MeansAndDifference ==
    (CompareReturned /\ last_call.raised = "none") =>
        \A k \in 1..Len(last_call.value) :
            LET row == last_call.value[k]
                yes == GroupCells(row.population, "yes")
                no == GroupCells(row.population, "no")
                mean_yes == row.mean_percentage_responders
                mean_no == row.mean_percentage_non_responders
            IN  (yes # {} /\ no # {}) =>
                    /\ RoundedMean(mean_yes, yes)
                    /\ RoundedMean(mean_no, no)
                    /\ IF IsVal(mean_yes) /\ IsVal(mean_no)
                       THEN row.difference = Val(mean_yes[2] - mean_no[2])
                       ELSE IsNaN(row.difference)

\* a row with means 10.23 and 11.63 of two values each, and difference -1.40
C11_Witness ==
    /\ CompareReturned
    /\ \E k \in 1..Len(last_call.value) :
          /\ last_call.value[k].mean_percentage_responders = Val(1023)
          /\ last_call.value[k].mean_percentage_non_responders = Val(1163)
          /\ last_call.value[k].difference = Val(-140)

\* C12: compute_relative_frequencies, compare_responders and
\* baseline_summary never change the rows of samples and cell_counts,
\* whether they return or raise: a step that changes a row is a step of
\* data_management, which leaves no analysis result behind.
C12_AnalysisLeavesTheStore ==
    [][(samples' # samples \/ cell_counts' # cell_counts)
          => last_call'.op = "none"]_vars

\* compare_responders has raised on a store that holds rows
C12_Witness ==
    /\ CompareReturned
    /\ last_call.raised = "AttributeError"
    /\ samples # <<>>
    /\ cell_counts # <<>>

\* the sum of the counts of the cell_counts rows that reference one
\* samples record
RecordTotal(sample_id) ==
    SumCounts({c \in Range(cell_counts) : c.sample_id = sample_id})

\* C13: in every database that initialize_database and load_data lead to,
\* the total_count of each row compute_relative_frequencies returns is the
\* sum of the counts of the cell_counts rows of the same samples record.
C13_TotalOfOneRecord ==
    FreqReturned =>
        \A k \in 1..Len(last_call.value) :
            last_call.value[k].total_count = RecordTotal(cell_counts[k].sample_id)

\* C14: the stats table and the box plot shown together by one run of the
\* Responder Analysis page are derived from the same contents of the
\* database.
C14_TableAndPlotOfSameContents ==
    (page.view = "responder_analysis" /\ page.raised = "none" /\ page.plot # <<>>)
        => page.table_of = page.plot_of

====
